---- MODULE Spec2Model ----
(***************************************************************************)
(* A model of pendulum/pendulum.py: the Pendulum value (an aware           *)
(* datetime held in _datetime plus the zone held in _tz), its setters,     *)
(* add/sub (dateutil's relativedelta applied to the datetime), the         *)
(* start_of_* / end_of_* modifiers and the weekday navigation.             *)
(*                                                                         *)
(* The datetime is a record of its civil fields and `off`, the UTC offset  *)
(* in minutes of the tzinfo object attached to it.  datetime.replace and   *)
(* datetime + timedelta work on the civil fields and keep the attached     *)
(* tzinfo, as Python's datetime does.  Years run over datetime's range     *)
(* 1..9999; an operation that leaves it raises.                            *)
(***************************************************************************)
EXTENDS Integers, Sequences, FiniteSets, TLC

VARIABLES datetime, tz, week_starts_at, week_ends_at, last, budget, origin, chain,
          original, text

vars == <<datetime, tz, week_starts_at, week_ends_at, last, budget, origin, chain,
          original, text>>

----------------------------------------------------------------------------
(* Class constants, pendulum.py:25-52 *)
SUNDAY == 0
MONDAY == 1
TUESDAY == 2
WEDNESDAY == 3
THURSDAY == 4
FRIDAY == 5
SATURDAY == 6
YEARS_PER_CENTURY == 100
YEARS_PER_DECADE == 10
MONTHS_PER_YEAR == 12
DAYS_PER_WEEK == 7

(* Bounds of the model *)
MaxSteps == 2
MaxNth == 5
MaxMonths == 13
MaxNthQuarter == 15
MaxNthYear == 54
MaxOffset == 840

----------------------------------------------------------------------------
(* The Gregorian calendar as the calendar and datetime modules compute it  *)

isleap(year) == year % 4 = 0 /\ (year % 100 # 0 \/ year % 400 = 0)

mdays == <<31, 28, 31, 30, 31, 30, 31, 31, 30, 31, 30, 31>>

days_before_month_table == <<0, 31, 59, 90, 120, 151, 181, 212, 243, 273, 304, 334>>

ValidYear(year) == year >= 1 /\ year <= 9999

(* calendar.monthrange(year, month)[1] *)
monthrange_days(year, month) == IF month = 2 /\ isleap(year) THEN 29 ELSE mdays[month]

days_before_year(year) == LET y == year - 1 IN y * 365 + y \div 4 - y \div 100 + y \div 400

days_before_month(year, month) ==
    days_before_month_table[month] + (IF month > 2 /\ isleap(year) THEN 1 ELSE 0)

(* date.toordinal(): 0001-01-01 is day 1 *)
ymd2ord(year, month, day) == days_before_year(year) + days_before_month(year, month) + day

MaxOrd == ymd2ord(9999, 12, 31)

(* date.fromordinal(n), for 1 <= n <= MaxOrd: <<year, month, day>> *)
ord2ymd(n) ==
    LET in_month(year, month, r1, preceding) == <<year, month, r1 - preceding + 1>>
        estimate(year, leapyear, r1, m0, p0) ==
            IF p0 > r1
            THEN in_month(year, m0 - 1, r1,
                          p0 - (mdays[m0 - 1] + (IF m0 - 1 = 2 /\ leapyear THEN 1 ELSE 0)))
            ELSE in_month(year, m0, r1, p0)
        in_year(year, leapyear, r1, m0) ==
            estimate(year, leapyear, r1, m0,
                     days_before_month_table[m0] + (IF m0 > 2 /\ leapyear THEN 1 ELSE 0))
        cycles(year, n100, n4, n1, r1) ==
            IF n1 = 4 \/ n100 = 4
            THEN <<year - 1, 12, 31>>
            ELSE in_year(year, n1 = 3 /\ (n4 # 24 \/ n100 = 3), r1, (r1 + 50) \div 32)
        in4(n400, n100, n4, r4) ==
            cycles(n400 * 400 + 1 + n100 * 100 + n4 * 4 + r4 \div 365,
                   n100, n4, r4 \div 365, r4 % 365)
        in100(n400, n100, r100) == in4(n400, n100, r100 \div 1461, r100 % 1461)
        in400(n400, r400) == in100(n400, r400 \div 36524, r400 % 36524)
    IN in400((n - 1) \div 146097, (n - 1) % 146097)

toordinal(d) == ymd2ord(d.year, d.month, d.day)

(* datetime.weekday(): Monday is 0 *)
weekday(d) == (toordinal(d) + 6) % 7

(* Pendulum.day_of_week, int(strftime('%w')): Sunday is 0 *)
day_of_week(d) == toordinal(d) % 7

(* Pendulum.days_in_month *)
days_in_month(d) == monthrange_days(d.year, d.month)

(* Pendulum.quarter, int(math.ceil(month / 3)) *)
quarter(d) == (d.month + 2) \div 3

SecOfDay(d) == d.hour * 3600 + d.minute * 60 + d.second

(* What an operation leaves: the value returned ("self", "False") or       *)
(* "raise", the datetime the receiver is left with, and the number of      *)
(* single-day steps a weekday search took.                                  *)
Result(ret, val, iters) == [ret |-> ret, val |-> val, iters |-> iters]

Ok(val) == Result("self", val, 0)

Raise(val) == Result("raise", val, 0)

(* datetime + timedelta(days, seconds, microseconds): arithmetic on the    *)
(* civil fields, the tzinfo kept; OverflowError outside 1..MaxOrd          *)
add_timedelta(d, days, seconds, microseconds) ==
    LET civil(ymd, sd, us) ==
            Ok([d EXCEPT !.year = ymd[1], !.month = ymd[2], !.day = ymd[3],
                         !.hour = sd \div 3600, !.minute = (sd % 3600) \div 60,
                         !.second = sd % 60, !.microsecond = us])
        on_day(o, sd, us) ==
            IF o < 1 \/ o > MaxOrd THEN Raise(d) ELSE civil(ord2ymd(o), sd, us)
        carry(s, us) == on_day(toordinal(d) + days + s \div 86400, s % 86400, us % 1000000)
        total(us) == carry(SecOfDay(d) + seconds + us \div 1000000, us)
    IN total(d.microsecond + microseconds)

----------------------------------------------------------------------------
(* Zones.  _safe_create_datetime_zone resolves a name through pytz; the    *)
(* model knows UTC and one zone with daylight saving time, Europe/Paris,   *)
(* with the part of its transition table the model's dates reach: local    *)
(* mean time (+0:09) before 1911, and from 1996 to 2037 CET (+60) with     *)
(* CEST (+120) between the last Sundays of March and October, 01:00 UTC;   *)
(* pytz's table ends in 2037 and CET holds after it.                       *)

Zones == {"UTC", "Europe/Paris"}

(* An absolute instant is <<ordinal of the UTC date, second of the day>> *)
Before(a, b) == a[1] < b[1] \/ (a[1] = b[1] /\ a[2] < b[2])

LastSunday(year, month) ==
    LET sunday_on_or_before(o) == o - (o % 7)
    IN sunday_on_or_before(ymd2ord(year, month, monthrange_days(year, month)))

(* tzinfo.fromutc: the offset, in minutes, in force at UTC instant t *)
utcoffset_at(zone, t) ==
    IF zone = "UTC" THEN 0
    ELSE LET in_year(y) ==
                 IF y < 1911 THEN 9
                 ELSE IF /\ y >= 1996 /\ y <= 2037
                         /\ ~Before(t, <<LastSunday(y, 3), 3600>>)
                         /\ Before(t, <<LastSunday(y, 10), 3600>>)
                      THEN 120
                      ELSE 60
         IN in_year(ord2ymd(t[1])[1])

is_dst_offset(zone, o) == zone # "UTC" /\ o = 120

Instant(d) == <<toordinal(d), SecOfDay(d)>>

(* The offsets o of the zone under which the civil time d is the local     *)
(* time of an instant at which o is in force (pytz localize's             *)
(* possible_loc_dt, tried for the offsets a day before and a day after)    *)
possible_offsets(zone, d) ==
    LET offset_at(days, seconds) ==
            utcoffset_at(zone, Instant(add_timedelta(d, days, seconds, 0).val))
        fitting(cands) == {o \in cands : offset_at(0, -(o * 60)) = o}
    IN fitting({offset_at(days, 0) : days \in {-1, 1}})

pick_offset(zone, possible) ==
    LET nondst == {o \in possible : ~is_dst_offset(zone, o)}
        filtered == IF nondst # {} THEN nondst ELSE possible
    IN CHOOSE o \in filtered : \A p \in filtered : o <= p

(* tz.localize(naive datetime), is_dst=False: pendulum.py:154.  pytz.UTC   *)
(* attaches itself; a zone with transitions looks a day to either side     *)
(* (OverflowError on the first and last day of datetime's range), takes    *)
(* the one offset that fits, the standard one of an ambiguous time, and    *)
(* for a time inside a gap the offset in force six hours earlier.          *)
localize(zone, d) ==
    IF zone = "UTC" THEN Ok([d EXCEPT !.off = 0])
    ELSE IF toordinal(d) <= 1 \/ toordinal(d) >= MaxOrd THEN Raise(d)
    ELSE LET in_gap(earlier) ==
                 IF toordinal(earlier) <= 1 THEN Raise(d)
                 ELSE Ok([d EXCEPT !.off = pick_offset(zone, possible_offsets(zone, earlier))])
             resolve(possible) ==
                 IF possible # {}
                 THEN Ok([d EXCEPT !.off = pick_offset(zone, possible)])
                 ELSE in_gap(add_timedelta(d, 0, -21600, 0).val)
         IN resolve(possible_offsets(zone, d))

(* datetime.astimezone(tz): the same instant in the zone's civil time *)
astimezone(d, zone) ==
    LET local(loc, o) ==
            IF loc.ret = "raise" THEN Raise(d) ELSE Ok([loc.val EXCEPT !.off = o])
        shift(utc, o) == local(add_timedelta(utc.val, 0, o * 60, 0), o)
        from_utc(utc) ==
            IF utc.ret = "raise" THEN Raise(d)
            ELSE shift(utc, utcoffset_at(zone, Instant(utc.val)))
    IN from_utc(add_timedelta(d, 0, -(d.off * 60), 0))

(* Pendulum.__init__ with every field given *)
construct(year, month, day, hour, minute, second, microsecond, zone) ==
    localize(zone, [year |-> year, month |-> month, day |-> day,
                    hour |-> hour, minute |-> minute, second |-> second,
                    microsecond |-> microsecond, off |-> 0])

(* Pendulum.instance(dt) as copy() calls it: the constructor on the civil  *)
(* fields of dt and its tzinfo                                              *)
instance(d, zone) == localize(zone, d)

copy(d, zone) == instance(d, zone)

----------------------------------------------------------------------------
(* Setters *)

(* datetime.replace(year, month, day): ValueError unless a legal date *)
set_date(d, year, month, day) ==
    IF /\ ValidYear(year) /\ month >= 1 /\ month <= 12
       /\ day >= 1 /\ day <= monthrange_days(year, month)
    THEN Ok([d EXCEPT !.year = year, !.month = month, !.day = day])
    ELSE Raise(d)

(* datetime.replace(hour, minute, second): the microsecond is not named *)
set_time(d, hour, minute, second) ==
    IF /\ hour >= 0 /\ hour <= 23 /\ minute >= 0 /\ minute <= 59
       /\ second >= 0 /\ second <= 59
    THEN Ok([d EXCEPT !.hour = hour, !.minute = minute, !.second = second])
    ELSE Raise(d)

(* set_date_time that commits nothing when the time is rejected *)
set_date_time_all_or_nothing(d, year, month, day, hour, minute, second) ==
    LET then_time(r) ==
            IF r.ret = "raise" \/ set_time(r.val, hour, minute, second).ret = "raise"
            THEN Raise(d)
            ELSE set_time(r.val, hour, minute, second)
    IN then_time(set_date(d, year, month, day))

(* self.set_date(year, month, day).set_time(hour, minute, second) *)
set_date_time(d, year, month, day, hour, minute, second) ==
    LET then_time(r) == IF r.ret = "raise" THEN r ELSE set_time(r.val, hour, minute, second)
    IN then_time(set_date(d, year, month, day))

set_timezone(d, zone) == astimezone(d, zone)

(* The call form of the hybrid properties, self.day(value) and            *)
(* self.month(value): the named field replaced                            *)
set_day(d, value) == set_date(d, d.year, d.month, value)

set_month(d, value) == set_date(d, d.year, value, d.day)

----------------------------------------------------------------------------
(* Formatting: the custom formatter %P of strftime *)

Digits == <<"0", "1", "2", "3", "4", "5", "6", "7", "8", "9">>

(* '{:02d}'.format(n), as characters, for 0 <= n < 100 *)
two_digits(n) == <<Digits[(n \div 10) + 1], Digits[(n % 10) + 1]>>

(* _strftime('P') that writes '+' for every offset that is not negative *)
strftime_P_plus_for_zero(d) ==
    LET rendered(sign, hour, minute) ==
            <<sign>> \o two_digits(hour) \o <<":">> \o two_digits(minute)
        split(minutes, magnitude) ==
            rendered(IF minutes >= 0 THEN "+" ELSE "-", magnitude \div 60, magnitude % 60)
    IN split(d.off, IF d.off < 0 THEN 0 - d.off ELSE d.off)

(* _strftime('P'): minutes of utcoffset(), sign, divmod(abs(minutes), 60), *)
(* '{0}{1:02d}:{2:02d}'                                                     *)
strftime_P(d) ==
    LET rendered(sign, hour, minute) ==
            <<sign>> \o two_digits(hour) \o <<":">> \o two_digits(minute)
        split(minutes, magnitude) ==
            rendered(IF minutes > 0 THEN "+" ELSE "-", magnitude \div 60, magnitude % 60)
    IN split(d.off, IF d.off < 0 THEN 0 - d.off ELSE d.off)

----------------------------------------------------------------------------
(* add / sub: dateutil's relativedelta applied to the datetime *)

sign(x) == IF x < 0 THEN 0 - 1 ELSE 1

abs(x) == IF x < 0 THEN 0 - x ELSE x

(* relativedelta._fix, one unit: <<what stays, what is carried>> *)
fix_unit(x, limit, base) ==
    IF abs(x) > limit
    THEN <<((x * sign(x)) % base) * sign(x), ((x * sign(x)) \div base) * sign(x)>>
    ELSE <<x, 0>>

(* The keyword arguments of add and sub; weekdays = -1 stands for None *)
kwargs(years, months, weeks, days, hours, minutes, seconds, microseconds, weekdays) ==
    [years |-> years, months |-> months, weeks |-> weeks, days |-> days,
     hours |-> hours, minutes |-> minutes, seconds |-> seconds,
     microseconds |-> microseconds, weekdays |-> weekdays]

NoDelta == kwargs(0, 0, 0, 0, 0, 0, 0, 0, 0 - 1)

(* relativedelta(years=, months=, weeks=, days=, ..., weekday=): weeks are *)
(* seven days each, and _fix carries every unit into the next one           *)
relativedelta(kw) ==
    LET fixed(us, se, mi, ho, mo) ==
            [years |-> kw.years + mo[2], months |-> mo[1],
             days |-> kw.days + kw.weeks * 7 + ho[2],
             hours |-> ho[1], minutes |-> mi[1], seconds |-> se[1],
             microseconds |-> us[1], weekday |-> kw.weekdays]
        hours(us, se, mi) ==
            fixed(us, se, mi, fix_unit(kw.hours + mi[2], 23, 24), fix_unit(kw.months, 11, 12))
        minutes(us, se) == hours(us, se, fix_unit(kw.minutes + se[2], 59, 60))
        seconds(us) == minutes(us, fix_unit(kw.seconds + us[2], 59, 60))
    IN seconds(fix_unit(kw.microseconds, 999999, 1000000))

(* relativedelta.__neg__ that leaves the days as they are *)
relativedelta_neg_keeps_days(rd) ==
    [years |-> 0 - rd.years, months |-> 0 - rd.months, days |-> rd.days,
     hours |-> 0 - rd.hours, minutes |-> 0 - rd.minutes, seconds |-> 0 - rd.seconds,
     microseconds |-> 0 - rd.microseconds, weekday |-> rd.weekday]

(* relativedelta.__neg__: every amount negated, the weekday kept *)
relativedelta_neg(rd) ==
    [years |-> 0 - rd.years, months |-> 0 - rd.months, days |-> 0 - rd.days,
     hours |-> 0 - rd.hours, minutes |-> 0 - rd.minutes, seconds |-> 0 - rd.seconds,
     microseconds |-> 0 - rd.microseconds, weekday |-> rd.weekday]

(* clamp_day with February taken as 28 days in every year *)
clamp_day_ignores_leap(year, month, day) == IF mdays[month] < day THEN mdays[month] ELSE day

(* The day of the month relativedelta.__add__ keeps *)
clamp_day(year, month, day) ==
    IF monthrange_days(year, month) < day THEN monthrange_days(year, month) ELSE day

(* relativedelta.__add__'s weekday step: forward to the weekday, which it  *)
(* numbers from Monday = 0                                                  *)
jumpdays(d, wd) == (7 - weekday(d) + wd) % 7

(* relativedelta.__add__(datetime): years and months on the civil fields,  *)
(* the day clamped once, then one timedelta, then the weekday step          *)
relativedelta_add(d, rd) ==
    LET landed(j) == IF j.ret = "raise" THEN Raise(d) ELSE j
        on_weekday(ret) ==
            IF ret.ret = "raise" THEN Raise(d)
            ELSE IF rd.weekday = 0 - 1 THEN ret
            ELSE landed(add_timedelta(ret.val, jumpdays(ret.val, rd.weekday), 0, 0))
        replaced(year, month) ==
            IF ~ValidYear(year) THEN Raise(d)
            ELSE on_weekday(add_timedelta(
                     [d EXCEPT !.year = year, !.month = month,
                               !.day = clamp_day(year, month, d.day)],
                     rd.days, rd.hours * 3600 + rd.minutes * 60 + rd.seconds,
                     rd.microseconds))
        rolled(m0) ==
            replaced(d.year + rd.years + (IF m0 > 12 THEN 1 ELSE IF m0 < 1 THEN 0 - 1 ELSE 0),
                     IF m0 > 12 THEN m0 - 12 ELSE IF m0 < 1 THEN m0 + 12 ELSE m0)
    IN rolled(d.month + rd.months)

add(d, kw) == relativedelta_add(d, relativedelta(kw))

sub(d, kw) == relativedelta_add(d, relativedelta_neg(relativedelta(kw)))

add_day(d) == add(d, [NoDelta EXCEPT !.days = 1])

sub_day(d) == sub(d, [NoDelta EXCEPT !.days = 1])

----------------------------------------------------------------------------
(* Modifiers *)

start_of_day(d) == set_time(d, 0, 0, 0)

end_of_day(d) == set_time(d, 23, 59, 59)

start_of_month(d) == set_date_time(d, d.year, d.month, 1, 0, 0, 0)

end_of_month(d) == set_date_time(d, d.year, d.month, days_in_month(d), 23, 59, 59)

start_of_year(d) == set_date_time(d, d.year, 1, 1, 0, 0, 0)

end_of_year(d) == set_date_time(d, d.year, 12, 31, 23, 59, 59)

start_of_decade(d) ==
    set_date_time(d, d.year - (d.year % YEARS_PER_DECADE), 1, 1, 0, 0, 0)

end_of_decade(d) ==
    set_date_time(d, d.year - (d.year % YEARS_PER_DECADE) + YEARS_PER_DECADE - 1,
                  12, 31, 23, 59, 59)

(* start_of_century with the decade's 0-based floor *)
start_of_century_zero_based(d) ==
    set_date_time(d, d.year - (d.year % YEARS_PER_CENTURY), 1, 1, 0, 0, 0)

start_of_century(d) ==
    set_date_time(d, d.year - 1 - ((d.year - 1) % YEARS_PER_CENTURY) + 1, 1, 1, 0, 0, 0)

end_of_century(d) ==
    set_date_time(d, d.year - 1 - ((d.year - 1) % YEARS_PER_CENTURY) + YEARS_PER_CENTURY,
                  12, 31, 23, 59, 59)

(* The while loops of next and previous: one day at a time, in place, until *)
(* the weekday is reached; n counts the single-day steps taken              *)
(* step_forward comparing datetime.weekday(), where Monday is 0 *)
RECURSIVE step_forward_monday_zero(_, _, _)
step_forward_monday_zero(d, dow, n) ==
    IF weekday(d) = dow THEN Result("self", d, n)
    ELSE LET stepped(r) == IF r.ret = "raise" THEN Result("raise", d, n)
                           ELSE step_forward_monday_zero(r.val, dow, n + 1)
         IN stepped(add_day(d))

RECURSIVE step_forward(_, _, _)
step_forward(d, dow, n) ==
    IF day_of_week(d) = dow THEN Result("self", d, n)
    ELSE LET stepped(r) == IF r.ret = "raise" THEN Result("raise", d, n)
                           ELSE step_forward(r.val, dow, n + 1)
         IN stepped(add_day(d))

RECURSIVE step_backward(_, _, _)
step_backward(d, dow, n) ==
    IF day_of_week(d) = dow THEN Result("self", d, n)
    ELSE LET stepped(r) == IF r.ret = "raise" THEN Result("raise", d, n)
                           ELSE step_backward(r.val, dow, n + 1)
         IN stepped(sub_day(d))

(* next that starts its search on the receiver's own date *)
next_from_today(d, dow) ==
    step_forward(start_of_day(d).val, IF dow = 0 - 1 THEN day_of_week(d) ELSE dow, 0)

(* next(day_of_week); dow = -1 stands for None *)
next(d, dow) ==
    LET search(s, a, target) ==
            IF a.ret = "raise" THEN Raise(s) ELSE step_forward(a.val, target, 1)
        from(s) == search(s, add_day(s), IF dow = 0 - 1 THEN day_of_week(d) ELSE dow)
    IN from(start_of_day(d).val)

previous(d, dow) ==
    LET search(s, a, target) ==
            IF a.ret = "raise" THEN Raise(s) ELSE step_backward(a.val, target, 1)
        from(s) == search(s, sub_day(s), IF dow = 0 - 1 THEN day_of_week(d) ELSE dow)
    IN from(start_of_day(d).val)

(* start_of_week that takes MONDAY for the configured week start *)
start_of_week_always_monday(d, starts_at) ==
    IF day_of_week(d) # MONDAY
    THEN LET found(p) == IF p.ret = "raise" THEN p
                         ELSE Result("self", start_of_day(p.val).val, p.iters)
         IN found(previous(d, MONDAY))
    ELSE start_of_day(d)

start_of_week(d, starts_at) ==
    IF day_of_week(d) # starts_at
    THEN LET found(p) == IF p.ret = "raise" THEN p
                         ELSE Result("self", start_of_day(p.val).val, p.iters)
         IN found(previous(d, starts_at))
    ELSE start_of_day(d)

end_of_week(d, ends_at) ==
    IF day_of_week(d) # ends_at
    THEN LET found(p) == IF p.ret = "raise" THEN p
                         ELSE Result("self", end_of_day(p.val).val, p.iters)
         IN found(next(d, ends_at))
    ELSE end_of_day(d)

(* calendar.monthcalendar(year, month): the weeks of the month, Monday     *)
(* first, 0 where the day lies outside the month                            *)
monthcalendar(year, month) ==
    LET cell(v, ndays) == IF v >= 1 /\ v <= ndays THEN v ELSE 0
        weeks(first, ndays) ==
            [r \in 1..((first + ndays + 6) \div 7) |->
               [c \in 1..7 |-> cell((r - 1) * 7 + (c - 1) - first + 1, ndays)]]
    IN weeks((ymd2ord(year, month, 1) + 6) % 7, monthrange_days(year, month))

(* first_of_month reading the grid as if its first column were Sunday *)
first_of_month_sunday_first(d, dow) ==
    LET pick(s, month, calendar_day) ==
            IF dow = 0 - 1 THEN 1
            ELSE IF month[1][calendar_day + 1] > 0
                 THEN month[1][calendar_day + 1]
                 ELSE month[2][calendar_day + 1]
        on(s) == set_day(s, pick(s, monthcalendar(s.year, s.month), dow % 7))
    IN on(start_of_day(d).val)

first_of_month(d, dow) ==
    LET pick(s, month, calendar_day) ==
            IF dow = 0 - 1 THEN 1
            ELSE IF month[1][calendar_day + 1] > 0
                 THEN month[1][calendar_day + 1]
                 ELSE month[2][calendar_day + 1]
        on(s) == set_day(s, pick(s, monthcalendar(s.year, s.month), (dow - 1) % 7))
    IN on(start_of_day(d).val)

last_of_month(d, dow) ==
    LET pick(s, month, calendar_day) ==
            IF dow = 0 - 1 THEN days_in_month(s)
            ELSE IF month[Len(month)][calendar_day + 1] > 0
                 THEN month[Len(month)][calendar_day + 1]
                 ELSE month[Len(month) - 1][calendar_day + 1]
        on(s) == set_day(s, pick(s, monthcalendar(s.year, s.month), (dow - 1) % 7))
    IN on(start_of_day(d).val)

(* for i in range(k): dt.next(day_of_week) *)
RECURSIVE repeat_next(_, _, _)
repeat_next(d, dow, k) ==
    IF k <= 0 THEN Ok(d)
    ELSE LET again(r) == IF r.ret = "raise" THEN Raise(d)
                         ELSE repeat_next(r.val, dow, k - 1)
         IN again(next(d, dow))

(* nth_of_month that steps nth times even when day 1 falls on the weekday *)
nth_of_month_counts_first_twice(d, zone, nth, dow) ==
    IF nth = 1 THEN first_of_month(d, dow)
    ELSE LET check(dt, stepped) ==
                 IF stepped.ret = "raise" THEN Raise(d)
                 ELSE IF stepped.val.year = dt.year /\ stepped.val.month = dt.month
                      THEN start_of_day(set_day(d, stepped.val.day).val)
                      ELSE Result("False", d, 0)
             search(dt) == check(dt, repeat_next(dt, dow, nth))
             on(c) == IF c.ret = "raise" THEN Raise(d)
                      ELSE search(first_of_month(c.val, 0 - 1).val)
         IN on(copy(d, zone))

(* nth_of_month works on a copy; the receiver changes only on success *)
nth_of_month(d, zone, nth, dow) ==
    IF nth = 1 THEN first_of_month(d, dow)
    ELSE LET check(dt, stepped) ==
                 IF stepped.ret = "raise" THEN Raise(d)
                 ELSE IF stepped.val.year = dt.year /\ stepped.val.month = dt.month
                      THEN start_of_day(set_day(d, stepped.val.day).val)
                      ELSE Result("False", d, 0)
             search(dt) ==
                 check(dt, repeat_next(dt, dow,
                                       nth - (IF day_of_week(dt) = dow THEN 1 ELSE 0)))
             on(c) == IF c.ret = "raise" THEN Raise(d)
                      ELSE search(first_of_month(c.val, 0 - 1).val)
         IN on(copy(d, zone))

(* self.set_date(self.year, self.quarter * 3 - 2, 1).first_of_month(...) *)
first_of_quarter(d, dow) ==
    first_of_month(set_date(d, d.year, quarter(d) * 3 - 2, 1).val, dow)

(* nth_of_quarter that validates the month only *)
nth_of_quarter_without_year_check(d, zone, nth, dow) ==
    IF nth = 1 THEN first_of_quarter(d, dow)
    ELSE LET check(last_month, year, stepped) ==
                 IF stepped.ret = "raise" THEN Raise(d)
                 ELSE IF last_month < stepped.val.month
                      THEN Result("False", d, 0)
                      ELSE start_of_day(set_date(d, d.year, stepped.val.month,
                                                 stepped.val.day).val)
             search(last_month, year, dt) ==
                 check(last_month, year,
                       repeat_next(dt, dow, nth - (IF day_of_week(dt) = dow THEN 1 ELSE 0)))
             at_end(e) == search(e.month, e.year, first_of_quarter(e, 0 - 1).val)
             on(c) == IF c.ret = "raise" THEN Raise(d)
                      ELSE at_end(set_month(set_day(c.val, 1).val, quarter(d) * 3).val)
         IN on(copy(d, zone))

(* nth_of_quarter: the copy is put on day 1 of the quarter's last month to *)
(* read last_month and year, then on the quarter's first day, and stepped  *)
nth_of_quarter(d, zone, nth, dow) ==
    IF nth = 1 THEN first_of_quarter(d, dow)
    ELSE LET check(last_month, year, stepped) ==
                 IF stepped.ret = "raise" THEN Raise(d)
                 ELSE IF last_month < stepped.val.month \/ year # stepped.val.year
                      THEN Result("False", d, 0)
                      ELSE start_of_day(set_date(d, d.year, stepped.val.month,
                                                 stepped.val.day).val)
             search(last_month, year, dt) ==
                 check(last_month, year,
                       repeat_next(dt, dow, nth - (IF day_of_week(dt) = dow THEN 1 ELSE 0)))
             at_end(e) == search(e.month, e.year, first_of_quarter(e, 0 - 1).val)
             on(c) == IF c.ret = "raise" THEN Raise(d)
                      ELSE at_end(set_month(set_day(c.val, 1).val, quarter(d) * 3).val)
         IN on(copy(d, zone))

(* self.month(1).first_of_month(day_of_week) *)
first_of_year(d, dow) == first_of_month(set_month(d, 1).val, dow)

(* nth_of_year that steps nth times even when January 1 is on the weekday *)
nth_of_year_counts_first_twice(d, zone, nth, dow) ==
    IF nth = 1 THEN first_of_year(d, dow)
    ELSE LET check(year, stepped) ==
                 IF stepped.ret = "raise" THEN Raise(d)
                 ELSE IF year # stepped.val.year
                      THEN Result("False", d, 0)
                      ELSE start_of_day(set_date(d, d.year, stepped.val.month,
                                                 stepped.val.day).val)
             search(dt) == check(dt.year, repeat_next(dt, dow, nth))
             on(c) == IF c.ret = "raise" THEN Raise(d)
                      ELSE search(first_of_year(c.val, 0 - 1).val)
         IN on(copy(d, zone))

nth_of_year(d, zone, nth, dow) ==
    IF nth = 1 THEN first_of_year(d, dow)
    ELSE LET check(year, stepped) ==
                 IF stepped.ret = "raise" THEN Raise(d)
                 ELSE IF year # stepped.val.year
                      THEN Result("False", d, 0)
                      ELSE start_of_day(set_date(d, d.year, stepped.val.month,
                                                 stepped.val.day).val)
             search(dt) ==
                 check(dt.year,
                       repeat_next(dt, dow, nth - (IF day_of_week(dt) = dow THEN 1 ELSE 0)))
             on(c) == IF c.ret = "raise" THEN Raise(d)
                      ELSE search(first_of_year(c.val, 0 - 1).val)
         IN on(copy(d, zone))

----------------------------------------------------------------------------
(* The inputs the model draws *)

Weekdays == SUNDAY..SATURDAY

(* A weekday argument: -1 stands for None *)
WeekdayArgs == Weekdays \cup {0 - 1}

Times == {<<2, 30, 0, 0>>, <<12, 34, 56, 789>>, <<23, 59, 59, 999999>>}

EdgeDates ==
    {<<1, 1, 1>>, <<1, 1, 2>>, <<1, 1, 7>>, <<5, 6, 15>>, <<9, 12, 31>>, <<2000, 2, 29>>,
     <<2000, 12, 31>>, <<9901, 1, 1>>, <<9999, 12, 1>>, <<9999, 12, 25>>, <<9999, 12, 30>>,
     <<9999, 12, 31>>}

Dates ==
    EdgeDates \cup
    {<<y, m, d>> \in {2023, 2024} \X (1..12) \X {1, 15, 28, 29, 30, 31} :
        d <= monthrange_days(y, m)}

(* The receivers of the runs of several operations *)
SequenceStarts ==
    {<<2024, 1, 31, 12, 34, 56, 789, "UTC">>,
     <<2023, 1, 31, 23, 59, 59, 999999, "Europe/Paris">>,
     <<2024, 2, 29, 0, 0, 0, 5, "UTC">>,
     <<2024, 3, 30, 12, 0, 0, 0, "Europe/Paris">>,
     <<2024, 3, 31, 1, 30, 0, 0, "Europe/Paris">>,
     <<2024, 10, 27, 1, 30, 0, 0, "Europe/Paris">>,
     <<2024, 11, 4, 9, 0, 0, 0, "UTC">>,
     <<2024, 11, 6, 9, 0, 0, 0, "UTC">>,
     <<2024, 11, 10, 9, 0, 0, 0, "UTC">>,
     <<5, 6, 15, 1, 2, 3, 4, "UTC">>,
     <<9999, 12, 30, 12, 0, 0, 0, "UTC">>}

Only(field, v) == [NoDelta EXCEPT ![field] = v]

AddDeltas ==
    {Only("months", k) : k \in ((0 - MaxMonths)..MaxMonths) \ {0}}
    \cup {Only("years", 1), Only("years", 0 - 1), Only("weeks", 1), Only("weeks", 0 - 1),
          Only("days", 1), Only("days", 0 - 1), Only("days", 31),
          Only("hours", 24), Only("hours", 1), Only("hours", 0 - 25),
          Only("minutes", 90), Only("seconds", 86400), Only("seconds", 0 - 1),
          Only("microseconds", 1), Only("microseconds", 1000001),
          [NoDelta EXCEPT !.years = 1, !.months = 1],
          [NoDelta EXCEPT !.months = 1, !.days = 1],
          [NoDelta EXCEPT !.days = 0 - 1, !.weekdays = 3]}
    \cup {Only("weekdays", w) : w \in Weekdays}

SubDeltas ==
    {Only("months", 1), Only("months", 13), Only("years", 1), Only("weeks", 1),
     Only("days", 1), Only("hours", 24), Only("seconds", 1), Only("microseconds", 1),
     [NoDelta EXCEPT !.years = 1, !.months = 1],
     [NoDelta EXCEPT !.days = 1, !.weekdays = 3]}
    \cup {Only("weekdays", w) : w \in Weekdays}

DateArgs ==
    {<<2024, 2, 29>>, <<2023, 2, 29>>, <<2024, 2, 30>>, <<2024, 3, 31>>, <<2023, 13, 1>>,
     <<0, 1, 1>>}

TimeArgs == {<<0, 0, 0>>, <<2, 30, 0>>, <<25, 0, 0>>, <<12, 60, 0>>, <<23, 59, 60>>}

DateTimeArgs ==
    {<<2024, 2, 29, 2, 30, 0>>, <<2024, 2, 29, 25, 0, 0>>, <<2024, 2, 30, 1, 0, 0>>,
     <<2023, 6, 15, 23, 59, 60>>}

----------------------------------------------------------------------------
(* The state machine.  datetime and tz are the receiver's _datetime and    *)
(* _tz; week_starts_at and week_ends_at the class attributes; last         *)
(* records the operation just applied, its arguments, the receiver before  *)
(* it and what it gave; original is the object a copy was taken from, and  *)
(* text the characters format last returned.                                *)

NoOp(d, zone) ==
    [op |-> "init", kw |-> NoDelta, args |-> <<>>, pre |-> d, pretz |-> zone,
     ret |-> "self", iters |-> 0]

Constructed(c) ==
    LET built(r) ==
            /\ r.ret = "self"
            /\ datetime = r.val
            /\ tz = c[8]
            /\ week_starts_at = MONDAY
            /\ week_ends_at = SUNDAY
            /\ last = NoOp(r.val, c[8])
            /\ origin = r.val
            /\ chain = 0
            /\ original = [taken |-> FALSE, val |-> r.val]
            /\ text = <<>>
    IN built(construct(c[1], c[2], c[3], c[4], c[5], c[6], c[7], c[8]))

(* A run of up to MaxSteps operations on one of a few receivers *)
Init ==
    /\ \E c \in SequenceStarts : Constructed(c)
    /\ budget = MaxSteps

(* One operation on each of many receivers *)
InitOps ==
    /\ \E dd \in Dates, t \in Times, zone \in Zones :
          Constructed(<<dd[1], dd[2], dd[3], t[1], t[2], t[3], t[4], zone>>)
    /\ budget = 1

Apply(op, kw, args, r) ==
    /\ budget > 0
    /\ budget' = budget - 1
    /\ datetime' = r.val
    /\ last' = [op |-> op, kw |-> kw, args |-> args, pre |-> datetime, pretz |-> tz,
                ret |-> r.ret, iters |-> r.iters]
    /\ UNCHANGED <<week_starts_at, week_ends_at, origin, chain, original, text>>

SetDate == \E a \in DateArgs :
    Apply("set_date", NoDelta, a, set_date(datetime, a[1], a[2], a[3])) /\ UNCHANGED tz

SetTime == \E a \in TimeArgs :
    Apply("set_time", NoDelta, a, set_time(datetime, a[1], a[2], a[3])) /\ UNCHANGED tz

SetDateTime == \E a \in DateTimeArgs :
    /\ Apply("set_date_time", NoDelta, a,
             set_date_time(datetime, a[1], a[2], a[3], a[4], a[5], a[6]))
    /\ UNCHANGED tz

(* _tz is assigned before the datetime is converted *)
SetTimezone == \E zone \in Zones :
    /\ Apply("set_timezone", NoDelta, <<>>, set_timezone(datetime, zone))
    /\ tz' = zone

Add == \E kw \in AddDeltas : Apply("add", kw, <<>>, add(datetime, kw)) /\ UNCHANGED tz

Sub == \E kw \in SubDeltas : Apply("sub", kw, <<>>, sub(datetime, kw)) /\ UNCHANGED tz

StartOfDay == Apply("start_of_day", NoDelta, <<>>, start_of_day(datetime)) /\ UNCHANGED tz

EndOfDay == Apply("end_of_day", NoDelta, <<>>, end_of_day(datetime)) /\ UNCHANGED tz

StartOfMonth == Apply("start_of_month", NoDelta, <<>>, start_of_month(datetime)) /\ UNCHANGED tz

EndOfMonth == Apply("end_of_month", NoDelta, <<>>, end_of_month(datetime)) /\ UNCHANGED tz

StartOfYear == Apply("start_of_year", NoDelta, <<>>, start_of_year(datetime)) /\ UNCHANGED tz

EndOfYear == Apply("end_of_year", NoDelta, <<>>, end_of_year(datetime)) /\ UNCHANGED tz

StartOfDecade == Apply("start_of_decade", NoDelta, <<>>, start_of_decade(datetime)) /\ UNCHANGED tz

EndOfDecade == Apply("end_of_decade", NoDelta, <<>>, end_of_decade(datetime)) /\ UNCHANGED tz

StartOfCentury ==
    Apply("start_of_century", NoDelta, <<>>, start_of_century(datetime)) /\ UNCHANGED tz

EndOfCentury == Apply("end_of_century", NoDelta, <<>>, end_of_century(datetime)) /\ UNCHANGED tz

StartOfWeek ==
    /\ Apply("start_of_week", NoDelta, <<week_starts_at>>, start_of_week(datetime, week_starts_at))
    /\ UNCHANGED tz

EndOfWeek ==
    /\ Apply("end_of_week", NoDelta, <<week_ends_at>>, end_of_week(datetime, week_ends_at))
    /\ UNCHANGED tz

DoNext == \E dow \in WeekdayArgs :
    Apply("next", NoDelta, <<dow>>, next(datetime, dow)) /\ UNCHANGED tz

DoPrevious == \E dow \in WeekdayArgs :
    Apply("previous", NoDelta, <<dow>>, previous(datetime, dow)) /\ UNCHANGED tz

FirstOfMonth == \E dow \in WeekdayArgs :
    Apply("first_of_month", NoDelta, <<dow>>, first_of_month(datetime, dow)) /\ UNCHANGED tz

LastOfMonth == \E dow \in WeekdayArgs :
    Apply("last_of_month", NoDelta, <<dow>>, last_of_month(datetime, dow)) /\ UNCHANGED tz

NthOfMonth == \E nth \in 1..MaxNth, dow \in Weekdays :
    /\ Apply("nth_of_month", NoDelta, <<nth, dow>>, nth_of_month(datetime, tz, nth, dow))
    /\ UNCHANGED tz

(* The class methods set_week_starts_at and set_week_ends_at *)
SetWeekStartsAt == \E v \in Weekdays :
    /\ budget > 0
    /\ budget' = budget - 1
    /\ week_starts_at' = v
    /\ last' = [NoOp(datetime, tz) EXCEPT !.op = "set_week_starts_at", !.args = <<v>>]
    /\ UNCHANGED <<datetime, tz, week_ends_at, origin, chain, original, text>>

SetWeekEndsAt == \E v \in Weekdays :
    /\ budget > 0
    /\ budget' = budget - 1
    /\ week_ends_at' = v
    /\ last' = [NoOp(datetime, tz) EXCEPT !.op = "set_week_ends_at", !.args = <<v>>]
    /\ UNCHANGED <<datetime, tz, week_starts_at, origin, chain, original, text>>

(* copy(): what the receiver is left as and what the new object is.  The   *)
(* model follows the new object, as a chain x.copy().add(...) does, and    *)
(* keeps the object it was taken from in original.                          *)
Copied(r) ==
    /\ datetime' = r.val
    /\ original' = [taken |-> r.ret = "self", val |-> datetime]
    /\ last' = [op |-> "copy", kw |-> NoDelta, args |-> <<>>, pre |-> datetime,
                pretz |-> tz, ret |-> r.ret, iters |-> 0]

Copy ==
    /\ budget > 0
    /\ budget' = budget - 1
    /\ Copied(copy(datetime, tz))
    /\ UNCHANGED <<tz, week_starts_at, week_ends_at, origin, chain, text>>

Next ==
    \/ SetDate \/ SetTime \/ SetDateTime \/ SetTimezone
    \/ Add \/ Sub
    \/ StartOfDay \/ EndOfDay \/ StartOfMonth \/ EndOfMonth
    \/ StartOfYear \/ EndOfYear \/ StartOfDecade \/ EndOfDecade
    \/ StartOfCentury \/ EndOfCentury \/ StartOfWeek \/ EndOfWeek
    \/ DoNext \/ DoPrevious \/ FirstOfMonth \/ LastOfMonth \/ NthOfMonth
    \/ SetWeekStartsAt \/ SetWeekEndsAt \/ Copy

Spec == Init /\ [][Next]_vars

SpecOps == InitOps /\ [][Next]_vars

(* next(MONDAY) applied again and again to one receiver: origin is the     *)
(* receiver at the start, chain the number of calls that returned          *)
ChainNext ==
    LET returned(r) ==
            /\ chain < 7
            /\ r.ret = "self"
            /\ datetime' = r.val
            /\ chain' = chain + 1
            /\ last' = [op |-> "next", kw |-> NoDelta, args |-> <<MONDAY>>,
                        pre |-> datetime, pretz |-> tz, ret |-> r.ret, iters |-> r.iters]
            /\ UNCHANGED <<tz, week_starts_at, week_ends_at, origin, budget, original, text>>
    IN returned(next(datetime, MONDAY))

SpecChain == InitOps /\ [][ChainNext]_vars

(* copy().add(days=1).sub(days=1) on each of many receivers; chain is the  *)
(* number of calls of the expression made so far                            *)
RoundTripCopy ==
    /\ chain = 0
    /\ chain' = 1
    /\ Copied(copy(datetime, tz))
    /\ UNCHANGED <<tz, week_starts_at, week_ends_at, origin, budget, text>>

Chained(op, kw, r) ==
    /\ last.ret = "self"
    /\ chain' = chain + 1
    /\ datetime' = r.val
    /\ last' = [op |-> op, kw |-> kw, args |-> <<>>, pre |-> datetime, pretz |-> tz,
                ret |-> r.ret, iters |-> r.iters]
    /\ UNCHANGED <<tz, week_starts_at, week_ends_at, origin, budget, original, text>>

RoundTripAdd ==
    chain = 1 /\ Chained("add", Only("days", 1), add(datetime, Only("days", 1)))

RoundTripSub ==
    chain = 2 /\ Chained("sub", Only("days", 1), sub(datetime, Only("days", 1)))

NextRoundTrip == RoundTripCopy \/ RoundTripAdd \/ RoundTripSub

SpecRoundTrip == InitOps /\ [][NextRoundTrip]_vars

(* format('%P') on receivers built with a numeric tzinfo, which           *)
(* _safe_create_datetime_zone turns into pytz.FixedOffset(tzinfo * 60);    *)
(* its localize attaches the fixed offset to the civil fields               *)
FixedOffsets == (0 - MaxOffset)..MaxOffset

InitFormat ==
    \E minutes \in FixedOffsets :
        LET built(d) ==
                /\ datetime = d
                /\ tz = "FixedOffset"
                /\ week_starts_at = MONDAY
                /\ week_ends_at = SUNDAY
                /\ last = NoOp(d, "FixedOffset")
                /\ origin = d
                /\ chain = 0
                /\ original = [taken |-> FALSE, val |-> d]
                /\ text = <<>>
                /\ budget = 1
        IN built([year |-> 2024, month |-> 1, day |-> 31, hour |-> 12, minute |-> 34,
                  second |-> 56, microsecond |-> 789, off |-> minutes])

Format ==
    /\ budget > 0
    /\ budget' = budget - 1
    /\ text' = strftime_P(datetime)
    /\ last' = [NoOp(datetime, tz) EXCEPT !.op = "format", !.args = <<"%P">>, !.ret = "str"]
    /\ UNCHANGED <<datetime, tz, week_starts_at, week_ends_at, origin, chain, original>>

SpecFormat == InitFormat /\ [][Format]_vars

(* One quarter or year navigation on receivers in every quarter *)
NthDates ==
    {<<2024, m, 15>> : m \in {2, 5, 8, 11}}
    \cup {<<2023, m, 31>> : m \in {1, 3, 7, 10, 12}}
    \cup {<<2023, 1, 1>>, <<2024, 12, 31>>, <<1, 1, 1>>, <<9999, 11, 15>>}

NthOfYearArgs ==
    {1, 2, 14, 40, MaxNthYear - 2, MaxNthYear - 1, MaxNthYear}

InitNth ==
    /\ \E dd \in NthDates, zone \in Zones :
          Constructed(<<dd[1], dd[2], dd[3], 12, 34, 56, 789, zone>>)
    /\ budget = 1

FirstOfQuarter == \E dow \in WeekdayArgs :
    Apply("first_of_quarter", NoDelta, <<dow>>, first_of_quarter(datetime, dow)) /\ UNCHANGED tz

NthOfQuarter == \E nth \in 1..MaxNthQuarter, dow \in Weekdays :
    /\ Apply("nth_of_quarter", NoDelta, <<nth, dow>>, nth_of_quarter(datetime, tz, nth, dow))
    /\ UNCHANGED tz

FirstOfYear == \E dow \in WeekdayArgs :
    Apply("first_of_year", NoDelta, <<dow>>, first_of_year(datetime, dow)) /\ UNCHANGED tz

NthOfYear == \E nth \in NthOfYearArgs, dow \in Weekdays :
    /\ Apply("nth_of_year", NoDelta, <<nth, dow>>, nth_of_year(datetime, tz, nth, dow))
    /\ UNCHANGED tz

NextNth == FirstOfQuarter \/ NthOfQuarter \/ FirstOfYear \/ NthOfYear

SpecNth == InitNth /\ [][NextNth]_vars

----------------------------------------------------------------------------
(* Properties *)

(* The datetime p moved to the date of ordinal o and the time h:mi:s, its  *)
(* microsecond and its attached offset kept                                 *)
AtDate(p, o, h, mi, s) ==
    LET ymd == ord2ymd(o)
    IN [p EXCEPT !.year = ymd[1], !.month = ymd[2], !.day = ymd[3],
                 !.hour = h, !.minute = mi, !.second = s]

MonthIndex(d) == d.year * 12 + d.month - 1

Min(a, b) == IF a < b THEN a ELSE b

(* C1, first part: add(months=k) moves to the (year, month) k months away, *)
(* sets day = min(original day, days in the target month) and leaves the   *)
(* time of day unchanged, whenever the target year is one datetime has.    *)
C1_MonthsMoved ==
    (last.op = "add" /\ last.kw.months # 0 /\ last.kw = Only("months", last.kw.months)) =>
        LET t == MonthIndex(last.pre) + last.kw.months
            ty == t \div 12
            tm == (t % 12) + 1
        IN ValidYear(ty) =>
             /\ last.ret = "self"
             /\ datetime = [last.pre EXCEPT !.year = ty, !.month = tm,
                               !.day = Min(last.pre.day, monthrange_days(ty, tm))]

(* C1, second part: the receiver is Jan 31 moved by add(months=1), and the *)
(* step is add(days=1)                                                      *)
C1_FebThenDay ==
    /\ last.op = "add" /\ last.kw = Only("months", 1) /\ last.ret = "self"
    /\ last.pre.month = 1 /\ last.pre.day = 31
    /\ last'.op = "add" /\ last'.kw = Only("days", 1)

(* C1: add(months=k) lands k months away with the day clamped to the       *)
(* target month's length and the time of day kept; Jan 31 + 1 month is     *)
(* Feb 28, or Feb 29 in a leap year, and add(days=1) on that result gives  *)
(* Mar 1 of the same year in both cases.                                    *)
C1_AddMonths ==
    [][/\ C1_MonthsMoved'
       /\ C1_FebThenDay =>
            /\ datetime.month = 2
            /\ datetime.day = (IF isleap(datetime.year) THEN 29 ELSE 28)
            /\ last'.ret = "self"
            /\ datetime' = [datetime EXCEPT !.month = 3, !.day = 1]]_vars

C1_Witness ==
    /\ origin.year = 2024 /\ origin.month = 1 /\ origin.day = 31
    /\ last.op = "add" /\ last.kw = Only("days", 1)
    /\ last.pre = [origin EXCEPT !.month = 2, !.day = 29]
    /\ datetime = [origin EXCEPT !.month = 3, !.day = 1]

(* The receiver's instant, from its civil fields and the attached offset *)
UtcOf(d) == add_timedelta(d, 0, 0 - (d.off * 60), 0).val

(* C2: after every successful operation the receiver's UTC offset is the   *)
(* offset its zone assigns to its absolute instant (never a stale one).    *)
C2_OffsetIsTheZonesOffset ==
    last.ret = "self" => utcoffset_at(tz, Instant(UtcOf(datetime))) = datetime.off

(* C3: add(hours=24) advances the absolute instant by 86400 seconds and    *)
(* re-expresses it in the zone, so across a DST transition the local time  *)
(* of day differs from the original by the DST shift.                       *)
C3_HoursAreElapsedTime ==
    (last.op = "add" /\ last.kw = Only("hours", 24) /\ last.ret = "self") =>
        LET u == add_timedelta(UtcOf(last.pre), 1, 0, 0).val
            o == utcoffset_at(tz, Instant(u))
        IN datetime = [add_timedelta(u, 0, o * 60, 0).val EXCEPT !.off = o]

(* The days of the month (year, month) that fall on weekday dow *)
Occurrences(year, month, dow) ==
    {x \in 1..monthrange_days(year, month) : ymd2ord(year, month, x) % 7 = dow}

(* C4: nth_of_month(n, target) moves the receiver to the n-th day of its   *)
(* month that falls on target, at 00:00:00, when the month has n such      *)
(* days; otherwise it returns False and the receiver is unchanged.  The    *)
(* month is one whose following month datetime has, and the receiver is    *)
(* one its zone can localize.                                               *)
C4_NthOfMonth ==
    (/\ last.op = "nth_of_month"
     /\ ~(last.pre.year = 9999 /\ last.pre.month = 12)
     /\ (last.pretz = "UTC" \/ toordinal(last.pre) > 1)) =>
        LET p == last.pre
            n == last.args[1]
            occ == Occurrences(p.year, p.month, last.args[2])
        IN IF Cardinality(occ) >= n
           THEN /\ last.ret = "self"
                /\ datetime.day \in occ
                /\ Cardinality({x \in occ : x <= datetime.day}) = n
                /\ datetime = [p EXCEPT !.day = datetime.day,
                                        !.hour = 0, !.minute = 0, !.second = 0]
           ELSE /\ last.ret = "False"
                /\ datetime = p

C4_Witness ==
    /\ last.op = "nth_of_month" /\ last.args = <<5, FRIDAY>>
    /\ Cardinality(Occurrences(last.pre.year, last.pre.month, FRIDAY)) = 4
    /\ last.ret = "False"
    /\ datetime = last.pre
    /\ datetime.hour = 12

(* The number of days from ordinal o forward to the first later day that   *)
(* falls on weekday dow, and backward to the last earlier one: 1..7         *)
DaysUntil(o, dow) == CHOOSE k \in 1..7 : (o + k) % 7 = dow

DaysSince(o, dow) == CHOOSE k \in 1..7 : (o - k) % 7 = dow

(* C5: next(target) leaves the receiver at 00:00:00 of the first date      *)
(* after its own that falls on target, 1 to 7 days later, in as many       *)
(* single-day steps, 7 days later when no target is given; previous is the *)
(* mirror image.  The date is one datetime has.                             *)
C5_NextPrevious ==
    LET p == last.pre
        target == IF last.args[1] = 0 - 1 THEN day_of_week(p) ELSE last.args[1]
        fwd == DaysUntil(toordinal(p), target)
        bwd == DaysSince(toordinal(p), target)
    IN /\ (last.op = "next" /\ toordinal(p) + fwd <= MaxOrd) =>
             /\ last.ret = "self"
             /\ last.iters = fwd
             /\ \A j \in 1..(fwd - 1) : (toordinal(p) + j) % 7 # target
             /\ datetime = AtDate(p, toordinal(p) + fwd, 0, 0, 0)
             /\ day_of_week(datetime) = target
             /\ (last.args[1] = 0 - 1 => fwd = 7)
       /\ (last.op = "previous" /\ toordinal(p) - bwd >= 1) =>
             /\ last.ret = "self"
             /\ last.iters = bwd
             /\ \A j \in 1..(bwd - 1) : (toordinal(p) - j) % 7 # target
             /\ datetime = AtDate(p, toordinal(p) - bwd, 0, 0, 0)
             /\ day_of_week(datetime) = target
             /\ (last.args[1] = 0 - 1 => bwd = 7)

C5_Witness ==
    /\ last.op = "next" /\ last.args = <<MONDAY>> /\ last.ret = "self"
    /\ day_of_week(last.pre) = MONDAY /\ last.pre.hour = 12
    /\ last.iters = 7
    /\ toordinal(datetime) = toordinal(last.pre) + 7
    /\ datetime.hour = 0

(* C6 as the spec states it: next(MONDAY) seven times gives the original   *)
(* weekday, 49 days after the original date.                                *)
C6_SevenMondaysGiveOriginalWeekday ==
    chain = 7 =>
        /\ day_of_week(datetime) = day_of_week(origin)
        /\ toordinal(datetime) = toordinal(origin) + 49

(* C6, amended: next(MONDAY) seven times gives the seventh Monday after    *)
(* the original date, 42 days after the first one, at 00:00:00: 43 to 49   *)
(* days after the original date, and 49 days, on the original weekday,     *)
(* exactly when the original date is a Monday.                              *)
C6_SevenMondays ==
    chain = 7 =>
        /\ day_of_week(datetime) = MONDAY
        /\ datetime = AtDate(origin, toordinal(origin) + DaysUntil(toordinal(origin), MONDAY) + 42,
                             0, 0, 0)
        /\ (toordinal(datetime) = toordinal(origin) + 49) <=> (day_of_week(origin) = MONDAY)
        /\ (day_of_week(datetime) = day_of_week(origin)) <=> (day_of_week(origin) = MONDAY)

C6_Witness ==
    /\ chain = 7
    /\ day_of_week(origin) = WEDNESDAY
    /\ toordinal(datetime) = toordinal(origin) + 47

StartOps ==
    {"start_of_day", "start_of_month", "start_of_year", "start_of_decade",
     "start_of_century", "start_of_week"}

EndOps ==
    {"end_of_day", "end_of_month", "end_of_year", "end_of_decade", "end_of_century",
     "end_of_week"}

(* C7: each start_of_* leaves the receiver at 00:00:00.000000 and each     *)
(* end_of_* at 23:59:59, whatever its microsecond was.                      *)
C7_BoundaryTimes ==
    /\ (last.op \in StartOps /\ last.ret = "self") =>
          /\ datetime.hour = 0 /\ datetime.minute = 0
          /\ datetime.second = 0 /\ datetime.microsecond = 0
    /\ (last.op \in EndOps /\ last.ret = "self") =>
          /\ datetime.hour = 23 /\ datetime.minute = 59 /\ datetime.second = 59

(* C8: the alignment operators are total: on every valid receiver each of  *)
(* them completes without raising.                                          *)
C8_AlignmentIsTotal ==
    last.op \in StartOps \cup EndOps => last.ret = "self"

(* C9: start_of_decade gives Jan 1 of y - y mod 10 and end_of_decade       *)
(* Dec 31 of that year + 9; start_of_century gives Jan 1 of                 *)
(* (y-1) - (y-1) mod 100 + 1 and end_of_century Dec 31 of that year + 99;  *)
(* the original year y lies between the two.  The year named is one        *)
(* datetime has.                                                            *)
C9_DecadeAndCentury ==
    LET p == last.pre
        y == p.year
        dstart == y - (y % 10)
        cstart == (y - 1) - ((y - 1) % 100) + 1
    IN /\ (last.op = "start_of_decade" /\ ValidYear(dstart)) =>
             /\ last.ret = "self"
             /\ datetime = [p EXCEPT !.year = dstart, !.month = 1, !.day = 1,
                                     !.hour = 0, !.minute = 0, !.second = 0]
             /\ datetime.year <= y /\ y <= datetime.year + 9
       /\ (last.op = "end_of_decade" /\ ValidYear(dstart + 9)) =>
             /\ last.ret = "self"
             /\ datetime = [p EXCEPT !.year = dstart + 9, !.month = 12, !.day = 31,
                                     !.hour = 23, !.minute = 59, !.second = 59]
             /\ datetime.year - 9 <= y /\ y <= datetime.year
       /\ (last.op = "start_of_century" /\ ValidYear(cstart)) =>
             /\ last.ret = "self"
             /\ datetime = [p EXCEPT !.year = cstart, !.month = 1, !.day = 1,
                                     !.hour = 0, !.minute = 0, !.second = 0]
             /\ datetime.year <= y /\ y <= datetime.year + 99
       /\ (last.op = "end_of_century" /\ ValidYear(cstart + 99)) =>
             /\ last.ret = "self"
             /\ datetime = [p EXCEPT !.year = cstart + 99, !.month = 12, !.day = 31,
                                     !.hour = 23, !.minute = 59, !.second = 59]
             /\ datetime.year - 99 <= y /\ y <= datetime.year

C9_Witness ==
    /\ last.op = "start_of_century" /\ last.ret = "self"
    /\ last.pre.year = 2000 /\ last.pre.month = 12
    /\ datetime.year = 1901 /\ datetime.month = 1 /\ datetime.day = 1

(* C10: start_of_week leaves the receiver at 00:00:00 of the latest date   *)
(* on or before its own that falls on the configured week start, 0 to 6    *)
(* days back, and end_of_week at 23:59:59 of the earliest date on or after *)
(* its own that falls on the configured week end, 0 to 6 days forward,     *)
(* for every value of the two settings.  The date is one datetime has.     *)
C10_WeekBoundaries ==
    LET p == last.pre
        back == (day_of_week(p) - week_starts_at) % 7
        forward == (week_ends_at - day_of_week(p)) % 7
    IN /\ (last.op = "start_of_week" /\ toordinal(p) - back >= 1) =>
             /\ last.ret = "self"
             /\ datetime = AtDate(p, toordinal(p) - back, 0, 0, 0)
             /\ day_of_week(datetime) = week_starts_at
             /\ \A j \in 0..(back - 1) : (toordinal(p) - j) % 7 # week_starts_at
       /\ (last.op = "end_of_week" /\ toordinal(p) + forward <= MaxOrd) =>
             /\ last.ret = "self"
             /\ datetime = AtDate(p, toordinal(p) + forward, 23, 59, 59)
             /\ day_of_week(datetime) = week_ends_at
             /\ \A j \in 0..(forward - 1) : (toordinal(p) + j) % 7 # week_ends_at

C10_Witness ==
    /\ last.op = "start_of_week" /\ last.ret = "self"
    /\ week_starts_at = THURSDAY
    /\ day_of_week(last.pre) = WEDNESDAY
    /\ toordinal(datetime) = toordinal(last.pre) - 6
    /\ datetime.hour = 0

(* The ordinal of the n-th day on weekday dow counted from the day of      *)
(* ordinal first (that day included)                                        *)
NthOccurrence(first, n, dow) == first + ((dow - first) % 7) + 7 * (n - 1)

(* A receiver its zone can localize again: pytz looks a day to either side *)
Localizable(d, zone) == zone = "UTC" \/ (toordinal(d) > 1 /\ toordinal(d) < MaxOrd)

(* C11: nth_of_quarter(n, target) returns False with the receiver          *)
(* unchanged exactly when the n-th day on target counted from the first    *)
(* day of the receiver's quarter lies after the quarter's last day (in a   *)
(* later month or the next year); otherwise the receiver is moved to that  *)
(* day at 00:00:00, inside its quarter and year.  The day is one datetime  *)
(* has.                                                                     *)
C11_NthOfQuarter ==
    (last.op = "nth_of_quarter" /\ Localizable(last.pre, last.pretz)) =>
        LET p == last.pre
            q == quarter(p)
            first == ymd2ord(p.year, q * 3 - 2, 1)
            end == ymd2ord(p.year, q * 3, monthrange_days(p.year, q * 3))
            occ == NthOccurrence(first, last.args[1], last.args[2])
        IN occ <= MaxOrd =>
             IF occ > end
             THEN /\ last.ret = "False"
                  /\ datetime = p
             ELSE /\ last.ret = "self"
                  /\ datetime = AtDate(p, occ, 0, 0, 0)
                  /\ day_of_week(datetime) = last.args[2]
                  /\ quarter(datetime) = q
                  /\ datetime.year = p.year

C11_Witness ==
    /\ last.op = "nth_of_quarter"
    /\ quarter(last.pre) = 4
    /\ last.ret = "False"
    /\ datetime = last.pre
    /\ ord2ymd(NthOccurrence(ymd2ord(last.pre.year, 10, 1), last.args[1],
                             last.args[2]))[1] = last.pre.year + 1

(* C12: nth_of_year(n, target) returns False with the receiver unchanged   *)
(* exactly when the n-th day on target counted from January 1 of the       *)
(* receiver's year lies in a later year; otherwise the receiver is moved   *)
(* to that day at 00:00:00 in the same year, in whatever quarter it lies.  *)
(* The day is one datetime has.                                             *)
C12_NthOfYear ==
    (last.op = "nth_of_year" /\ Localizable(last.pre, last.pretz)) =>
        LET p == last.pre
            occ == NthOccurrence(ymd2ord(p.year, 1, 1), last.args[1], last.args[2])
        IN occ <= MaxOrd =>
             IF occ > ymd2ord(p.year, 12, 31)
             THEN /\ last.ret = "False"
                  /\ datetime = p
             ELSE /\ last.ret = "self"
                  /\ datetime = AtDate(p, occ, 0, 0, 0)
                  /\ day_of_week(datetime) = last.args[2]
                  /\ datetime.year = p.year

C12_Witness ==
    /\ last.op = "nth_of_year"
    /\ last.args[1] = 40
    /\ quarter(last.pre) = 1
    /\ last.ret = "self"
    /\ quarter(datetime) = 4
    /\ datetime.hour = 0

LegalDate(year, month, day) ==
    /\ year \in 1..9999 /\ month \in 1..12
    /\ day >= 1
    /\ day <= (IF month \in {4, 6, 9, 11} THEN 30
               ELSE IF month # 2 THEN 31
               ELSE IF year % 4 = 0 /\ (year % 100 # 0 \/ year % 400 = 0) THEN 29 ELSE 28)

LegalTime(hour, minute, second) == hour \in 0..23 /\ minute \in 0..59 /\ second \in 0..59

(* C13: set_date and set_time with an out-of-range combination fail and    *)
(* leave every field of the receiver as it was; set_date_time with a legal *)
(* date and an illegal time fails with the date already committed: the     *)
(* receiver has the new date and its old time.                              *)
C13_SetterErrors ==
    LET a == last.args
        p == last.pre
    IN /\ (last.op = "set_date" /\ ~LegalDate(a[1], a[2], a[3])) =>
             (last.ret = "raise" /\ datetime = p)
       /\ (last.op = "set_time" /\ ~LegalTime(a[1], a[2], a[3])) =>
             (last.ret = "raise" /\ datetime = p)
       /\ (/\ last.op = "set_date_time"
           /\ LegalDate(a[1], a[2], a[3])
           /\ ~LegalTime(a[4], a[5], a[6])) =>
             /\ last.ret = "raise"
             /\ datetime = [p EXCEPT !.year = a[1], !.month = a[2], !.day = a[3]]

C13_Witness ==
    /\ last.op = "set_date_time"
    /\ last.args = <<2024, 2, 29, 25, 0, 0>>
    /\ last.ret = "raise"
    /\ last.pre.day = 31 /\ last.pre.hour = 12
    /\ datetime.month = 2 /\ datetime.day = 29 /\ datetime.hour = 12

(* The zone's offset changes between a day before and a day after d *)
NearTransition(d, zone) ==
    LET t == Instant(UtcOf(d))
    IN utcoffset_at(zone, <<t[1] - 1, t[2]>>) # utcoffset_at(zone, <<t[1] + 1, t[2]>>)

CivilFields(d) ==
    <<d.year, d.month, d.day, d.hour, d.minute, d.second, d.microsecond>>

(* C14: for a receiver not within 24 hours of a DST transition of its      *)
(* zone, copy().add(days=1).sub(days=1) gives a value with the receiver's  *)
(* civil fields and zone, at month ends, year ends and Feb 28/29 too.  The *)
(* next day is one datetime has.                                            *)
C14_AddSubDayRoundTrip ==
    (/\ chain >= 1
     /\ ~NearTransition(origin, tz)
     /\ toordinal(origin) < MaxOrd) =>
        /\ last.ret = "self"
        /\ original = [taken |-> TRUE, val |-> origin]
        /\ chain = 2 => toordinal(datetime) = toordinal(origin) + 1
        /\ chain = 3 => CivilFields(datetime) = CivilFields(origin)
        /\ tz = last.pretz

C14_Witness ==
    /\ chain = 3
    /\ last.op = "sub"
    /\ origin.year = 2024 /\ origin.month = 2 /\ origin.day = 29
    /\ last.pre.month = 3 /\ last.pre.day = 1
    /\ ~NearTransition(origin, tz)
    /\ tz = "Europe/Paris"
    /\ CivilFields(datetime) = CivilFields(origin)

DigitValue(c) == CHOOSE i \in 0..9 : Digits[i + 1] = c

(* C15: %P renders the UTC offset of m whole minutes as a sign and HH:MM   *)
(* of |m|, the sign '+' exactly when m > 0 and '-' otherwise: -00:00 at    *)
(* offset zero, +05:30 at +330 minutes, -05:30 at -330 minutes.             *)
C15_OffsetToken ==
    last.op = "format" =>
        LET m == datetime.off
        IN /\ Len(text) = 6
           /\ text[1] \in {"+", "-"}
           /\ text[1] = "+" <=> m > 0
           /\ text[4] = ":"
           /\ (DigitValue(text[2]) * 10 + DigitValue(text[3])) * 60
                 + DigitValue(text[5]) * 10 + DigitValue(text[6])
               = (IF m < 0 THEN 0 - m ELSE m)
           /\ DigitValue(text[5]) * 10 + DigitValue(text[6]) < 60
           /\ m = 0 => text = <<"-", "0", "0", ":", "0", "0">>
           /\ m = 330 => text = <<"+", "0", "5", ":", "3", "0">>
           /\ m = 0 - 330 => text = <<"-", "0", "5", ":", "3", "0">>

C15_Witness ==
    /\ last.op = "format"
    /\ datetime.off = 0
    /\ text = <<"-", "0", "0", ":", "0", "0">>

(* The receiver carries the offset its zone has at the receiver's instant *)
OffsetInForce(d, zone) == utcoffset_at(zone, Instant(UtcOf(d))) = d.off

(* C16: copy() gives a new value with the civil fields, the zone and the   *)
(* absolute instant of the receiver, also when the receiver's local time   *)
(* lies in a fall-back hour; and no later operation on the copy changes    *)
(* the value it was taken from.  Stated for receivers that carry the       *)
(* offset in force at their instant.                                        *)
C16_CopyIsEqualAndIndependent ==
    [][ /\ (last'.op = "copy" /\ OffsetInForce(datetime, tz)) =>
              /\ last'.ret = "self"
              /\ original' = [taken |-> TRUE, val |-> datetime]
              /\ CivilFields(datetime') = CivilFields(datetime)
              /\ tz' = tz
              /\ Instant(UtcOf(datetime')) = Instant(UtcOf(datetime))
        /\ (original.taken /\ last'.op # "copy") => original' = original ]_vars

(* C17: add applies years, then months, and clamps the day of the month    *)
(* after each of the two steps: the day is clamped to the month's length   *)
(* in the year reached before the months are applied, so Feb 29 of a leap  *)
(* year with add(years=1, months=1) passes Feb 28 and ends on Mar 28.      *)
C17_ClampAfterEachStep ==
    (/\ last.op = "add"
     /\ last.kw = [NoDelta EXCEPT !.years = last.kw.years, !.months = last.kw.months]
     /\ last.ret = "self") =>
        LET p == last.pre
            y1 == p.year + last.kw.years
            d1 == Min(p.day, monthrange_days(y1, p.month))
            t == y1 * 12 + p.month - 1 + last.kw.months
            ty == t \div 12
            tm == (t % 12) + 1
        IN datetime = [p EXCEPT !.year = ty, !.month = tm,
                                !.day = Min(d1, monthrange_days(ty, tm))]

(* C18: with a weekday anchor, add and sub first apply the numeric         *)
(* components and then move by whole days, forward when the net delta is   *)
(* not negative and backward when it is, to the nearest date whose         *)
(* day_of_week (0 = Sunday .. 6 = Saturday) is the anchor: 0 to 6 days.    *)
C18_WeekdayAnchor ==
    (/\ last.op \in {"add", "sub"}
     /\ last.kw.weekdays # 0 - 1
     /\ last.kw = [NoDelta EXCEPT !.days = last.kw.days, !.weekdays = last.kw.weekdays]
     /\ last.ret = "self") =>
        LET p == last.pre
            w == last.kw.weekdays
            net == IF last.op = "add" THEN last.kw.days ELSE 0 - last.kw.days
            base == toordinal(p) + net
            landed == IF net >= 0 THEN base + ((w - base) % 7) ELSE base - ((base - w) % 7)
        IN /\ datetime = AtDate(p, landed, p.hour, p.minute, p.second)
           /\ day_of_week(datetime) = w

(* C19: first_of_month(target) moves the receiver to 00:00:00 of the       *)
(* earliest day of its month on weekday target (0 = Sunday), a day in      *)
(* 1..7 read from row 0 of the Monday-first month grid when that cell is   *)
(* populated and from row 1 otherwise; last_of_month(target) to the latest *)
(* such day, within the last 7 days of the month, read from the last or    *)
(* the second-to-last row; with no target they give day 1 and the last day *)
(* of the month.  Year and month are unchanged.                             *)
C19_FirstAndLastOfMonth ==
    last.op \in {"first_of_month", "last_of_month"} =>
        LET p == last.pre
            dow == last.args[1]
            occ == Occurrences(p.year, p.month, dow)
            ndays == monthrange_days(p.year, p.month)
            grid == monthcalendar(p.year, p.month)
            col == ((dow + 6) % 7) + 1
        IN /\ last.ret = "self"
           /\ datetime = [p EXCEPT !.day = datetime.day,
                                   !.hour = 0, !.minute = 0, !.second = 0]
           /\ (last.op = "first_of_month" /\ dow = 0 - 1) => datetime.day = 1
           /\ (last.op = "last_of_month" /\ dow = 0 - 1) => datetime.day = ndays
           /\ (last.op = "first_of_month" /\ dow # 0 - 1) =>
                 /\ datetime.day \in occ
                 /\ \A x \in occ : datetime.day <= x
                 /\ datetime.day \in 1..7
                 /\ datetime.day = IF grid[1][col] > 0 THEN grid[1][col] ELSE grid[2][col]
           /\ (last.op = "last_of_month" /\ dow # 0 - 1) =>
                 /\ datetime.day \in occ
                 /\ \A x \in occ : datetime.day >= x
                 /\ datetime.day \in (ndays - 6)..ndays
                 /\ datetime.day = IF grid[Len(grid)][col] > 0
                                   THEN grid[Len(grid)][col]
                                   ELSE grid[Len(grid) - 1][col]

C19_Witness ==
    /\ last.op = "first_of_month"
    /\ last.args = <<MONDAY>>
    /\ monthcalendar(last.pre.year, last.pre.month)[1][1] = 0
    /\ last.pre.hour = 12 /\ last.pre.day > 7
    /\ datetime.day \in 1..7
    /\ day_of_week(datetime) = MONDAY
    /\ datetime.hour = 0

====
